---- MODULE Spec2Model ----
(***************************************************************************)
(* Holders: value/property/state holders (hold.ts) and the text field      *)
(* wrapper TextBase (basic-forms.tsx), as state machines.                  *)
(*                                                                         *)
(* SpecHolders : one holder of a chosen flavor, its backing store, the     *)
(*               React state-update queue of the component, and a record   *)
(*               of what the last set() call did.                          *)
(* SpecText    : one TextBox bound to a numeric value holder.              *)
(* SpecInputs  : one CheckBox, Radio group, Slider or ColorPicker bound    *)
(*               to a value holder.                                        *)
(* SpecDates   : one DateBox or TimeBox bound to a Holder<Date|undefined>. *)
(* SpecTextSet : one TextBox, with or without a parse prop, bound to a     *)
(*               validating holder.                                        *)
(* SpecReadOnly: one field or wrapper bound to a holder without set.       *)
(* SpecComposer: one call of the default composer, which arranges the      *)
(*               control, its label and its error.                         *)
(***************************************************************************)
EXTENDS Integers, Sequences, FiniteSets, TLC

VARIABLES
  flavor,         \* which construction function made the holder
  delayedWrite,   \* the delayedWrite argument
  hasOnChanging,  \* whether an onChanging/onChange handler was supplied
  store,          \* value cell / model object / component.state
  pending,        \* React's queued partial state, merged per attribute
  last,           \* spy: what the most recent set() call did
  parseKind,      \* how props.parse reports failure
  keepBadTextProp, showErrorEarlyProp, required, errorProp,  \* TextBox props
  tempText, hasFocus, hadError, parseError,                  \* TextBaseState
  visibleError,   \* the error passed to composeWithLabel by the last render
  ev,             \* spy: the most recent event of the field
  input,          \* props of the non-text wrapper (type, `is` of each Radio)
  rendered,       \* what the non-text wrapper's last render produced
  env,            \* DateBox/TimeBox: utc and day props, time zone, clock
  layout          \* one call of composeWithLabel: its arguments and result

holderVars == <<flavor, delayedWrite, hasOnChanging, store, pending, last>>
textVars == <<parseKind, keepBadTextProp, showErrorEarlyProp, required, errorProp,
              tempText, hasFocus, hadError, parseError, visibleError, ev>>
inputVars == <<input, rendered>>
vars == <<holderVars, textVars, inputVars, env, layout>>

----------------------------------------------------------------------------
(* Values of the generic type T held by a holder.  "undefined" is the      *)
(* JavaScript value undefined.                                             *)
Undefined == "undefined"
Values == {Undefined, "a", "b"}

Flavors == {"value", "prop", "state", "holdState"}
StateFlavors == {"state", "holdState"}

\* Attribute names: a value holder always reports "value" (hold.ts:75); a
\* read-only holder ("get", a Holder with no set function) has the one cell.
Keys(fl) == IF fl \in {"value", "get"} THEN {"value"} ELSE {"foo", "bar"}

\* `set?: (newValue: T) => void`: every holder the construction functions
\* make has it, a read-only holder has not
HasSet_Always(fl) == TRUE
HasSet(fl) == fl # "get"

\* No setState request queued for an attribute.
NoReq == "none"

\* What a caller-supplied change handler does: returns a value (possibly
\* undefined) or throws.
HandlerOutcomes ==
  [kind : {"return"}, val : Values] \cup {[kind |-> "throw", val |-> Undefined]}
NoOutcome == [kind |-> "return", val |-> Undefined]

----------------------------------------------------------------------------
(* The working state of one set() call.                                    *)
(*   model    the object the holder reads and assigns (value cell, model)  *)
(*   cstate   component.state                                              *)
(*   replaced component.state is no longer the object `model`: a           *)
(*            synchronous setState made React install a new state object   *)
(*   writes   direct assignments into the live backing store               *)
(*   staleWrites  assignments into a state object React already replaced   *)
(*   requests setState calls                                               *)
(*   handlerAttr  the attr argument the handler was called with            *)
Begin(st, pend) ==
  [model |-> st, cstate |-> st, replaced |-> FALSE, pending |-> pend,
   writes |-> 0, staleWrites |-> 0, requests |-> 0, handlerAttr |-> "none"]

\* `this.value = v` / `model[attr] = v`
Assign_AllKeys(s, attr, v) ==
  [s EXCEPT !.model = [k \in DOMAIN s.model |-> v],
            !.cstate = [k \in DOMAIN s.cstate |-> v], !.writes = @ + 1]
Assign(s, attr, v) ==
  IF s.replaced
  THEN [s EXCEPT !.model[attr] = v, !.staleWrites = @ + 1]
  ELSE [s EXCEPT !.model[attr] = v, !.cstate[attr] = v, !.writes = @ + 1]

\* component.setState({[attr]: v}): applied at once outside a batch (sync),
\* queued inside one.
ReactSetState(s, attr, v, sync) ==
  IF sync
  THEN [s EXCEPT !.cstate[attr] = v, !.replaced = TRUE, !.requests = @ + 1]
  ELSE [s EXCEPT !.pending[attr] = v, !.requests = @ + 1]

\* `if (!delayedWrite)` before the handler is called
WritesFirst_Never(delayed) == FALSE
WritesFirst_Always(delayed) == TRUE
WritesFirst(delayed) == ~delayed

\* `if (result !== undefined) newValue = result`
EffectiveValue(newValue, result) ==
  IF result # Undefined THEN result ELSE newValue

\* `if (this.get !== newValue)` guarding the final write
NeedsWrite_Always(current, newValue) == TRUE
NeedsWrite_Inverted(current, newValue) == current = newValue
NeedsWrite(current, newValue) == current # newValue

\* The handler installed by holdState: request the state update, then return
\* the current state so that the holder does not assign it.
HoldStateHandler(s, newValue, attr, sync) ==
  LET s2 == ReactSetState([s EXCEPT !.handlerAttr = attr], attr, newValue, sync)
  IN [s |-> s2, kind |-> "return", val |-> s2.cstate[attr]]

\* Calling onChanging: h is "user" (caller's function, outcome `out`) or
\* "holdState".
CallOnChanging(h, s, newValue, attr, out, sync) ==
  IF h = "holdState"
  THEN HoldStateHandler(s, newValue, attr, sync)
  ELSE [s |-> [s EXCEPT !.handlerAttr = attr], kind |-> out.kind,
        val |-> out.val]

SetResult(s, called, threw, seenGet, seenPending, oldValue, result) ==
  [s |-> s, called |-> called, threw |-> threw, seenGet |-> seenGet,
   seenPending |-> seenPending, oldValue |-> oldValue, result |-> result]

\* ValueHolder.set
ValueHolderSet(s0, delayed, h, newValue, out) ==
  LET oldValue == s0.model["value"]
  IN IF h = "none"
     THEN SetResult(IF NeedsWrite(s0.model["value"], newValue)
                    THEN Assign(s0, "value", newValue) ELSE s0,
                    FALSE, FALSE, Undefined, NoReq, oldValue, Undefined)
     ELSE
       LET s1 == IF WritesFirst(delayed) THEN Assign(s0, "value", newValue) ELSE s0
           c  == CallOnChanging(h, s1, newValue, "value", out, FALSE)
           nv == EffectiveValue(newValue, c.val)
       IN IF c.kind = "throw"
          THEN SetResult(c.s, TRUE, TRUE, s1.model["value"], NoReq, oldValue, Undefined)
          ELSE SetResult(IF NeedsWrite(c.s.model["value"], nv)
                         THEN Assign(c.s, "value", nv) ELSE c.s,
                         TRUE, FALSE, s1.model["value"], NoReq, oldValue, c.val)

\* PropHolder.set
PropHolderSet(s0, attr, delayed, h, newValue, out, sync) ==
  LET oldValue == s0.model[attr]
  IN IF h = "none"
     THEN SetResult(IF NeedsWrite(s0.model[attr], newValue)
                    THEN Assign(s0, attr, newValue) ELSE s0,
                    FALSE, FALSE, Undefined, NoReq, oldValue, Undefined)
     ELSE
       LET s1 == IF WritesFirst(delayed) THEN Assign(s0, attr, newValue) ELSE s0
           c  == CallOnChanging(h, s1, newValue, attr, out, sync)
           nv == EffectiveValue(newValue, c.val)
       IN IF c.kind = "throw"
          THEN SetResult(c.s, TRUE, TRUE, s1.model[attr], s1.pending[attr],
                         oldValue, Undefined)
          ELSE IF c.val = Undefined /\ ~delayed
          THEN SetResult(c.s, TRUE, FALSE, s1.model[attr], s1.pending[attr],
                         oldValue, c.val)
          ELSE SetResult(IF NeedsWrite(c.s.model[attr], nv)
                         THEN Assign(c.s, attr, nv) ELSE c.s,
                         TRUE, FALSE, s1.model[attr], s1.pending[attr],
                         oldValue, c.val)

\* StateHolder.set: get reads component().state, writes go through setState
StateHolderSet(s0, attr, delayed, h, newValue, out, sync) ==
  LET oldValue == s0.cstate[attr]
  IN IF h = "none"
     THEN SetResult(IF NeedsWrite(s0.cstate[attr], newValue)
                    THEN ReactSetState(s0, attr, newValue, sync) ELSE s0,
                    FALSE, FALSE, Undefined, NoReq, oldValue, Undefined)
     ELSE
       LET s1 == IF WritesFirst(delayed)
                 THEN ReactSetState(s0, attr, newValue, sync) ELSE s0
           c  == CallOnChanging(h, s1, newValue, attr, out, sync)
           nv == EffectiveValue(newValue, c.val)
       IN IF c.kind = "throw"
          THEN SetResult(c.s, TRUE, TRUE, s1.cstate[attr], s1.pending[attr],
                         oldValue, Undefined)
          ELSE IF c.val = Undefined /\ ~delayed
          THEN SetResult(c.s, TRUE, FALSE, s1.cstate[attr], s1.pending[attr],
                         oldValue, c.val)
          ELSE SetResult(IF NeedsWrite(c.s.cstate[attr], nv)
                         THEN ReactSetState(c.s, attr, nv, sync) ELSE c.s,
                         TRUE, FALSE, s1.cstate[attr], s1.pending[attr],
                         oldValue, c.val)

----------------------------------------------------------------------------
\* holder.get
Get(attr) == store[attr]

NoPending == \A k \in DOMAIN pending : pending[k] = NoReq

NoCall ==
  [op |-> "none", attr |-> "value", newValue |-> Undefined, before |-> Undefined,
   called |-> FALSE, threw |-> FALSE, seenGet |-> Undefined, seenPending |-> NoReq,
   oldValue |-> Undefined, result |-> Undefined, writes |-> 0, staleWrites |-> 0,
   requests |-> 0, sync |-> FALSE, applied |-> FALSE, handlerAttr |-> "none"]

\* The spy record of a finished set() call.
Spy(attr, newValue, r, sync) ==
  [op |-> "set", attr |-> attr, newValue |-> newValue, before |-> store[attr],
   called |-> r.called, threw |-> r.threw, seenGet |-> r.seenGet,
   seenPending |-> r.seenPending, oldValue |-> r.oldValue, result |-> r.result,
   writes |-> r.s.writes, staleWrites |-> r.s.staleWrites,
   requests |-> r.s.requests, sync |-> sync, applied |-> FALSE,
   handlerAttr |-> r.s.handlerAttr]

\* holdProps(model, propNames, ...): an object with one holder per element
\* of the array propNames; a holder is known by its attr
holdProps(model, propNames) ==
  [k \in {propNames[i] : i \in DOMAIN propNames} |-> [attr |-> k]]

\* Object.keys(model)
ObjectKeys(model) ==
  CHOOSE q \in [1..Cardinality(DOMAIN model) -> DOMAIN model] :
    {q[i] : i \in DOMAIN q} = DOMAIN model

\* holdAllProps(model, ...)
holdAllProps(model) == holdProps(model, ObjectKeys(model))

HandlerKind == IF hasOnChanging THEN "user" ELSE "none"
Outcomes == IF hasOnChanging THEN HandlerOutcomes ELSE {NoOutcome}

\* holdValue(...).set(newValue)
SetValueHolder(newValue, out) ==
  /\ flavor = "value"
  /\ LET r == ValueHolderSet(Begin(store, pending), delayedWrite, HandlerKind,
                             newValue, out)
     IN /\ store' = r.s.model
        /\ last' = Spy("value", newValue, r, FALSE)
  /\ UNCHANGED <<flavor, delayedWrite, hasOnChanging, pending>>

\* holdProp/holdProps/holdAllProps(...)[attr].set(newValue)
SetPropHolder(attr, newValue, out) ==
  /\ flavor = "prop"
  /\ LET r == PropHolderSet(Begin(store, pending), attr, delayedWrite, HandlerKind,
                            newValue, out, FALSE)
     IN /\ store' = r.s.model
        /\ last' = Spy(attr, newValue, r, FALSE)
  /\ UNCHANGED <<flavor, delayedWrite, hasOnChanging, pending>>

\* holdStates(component, ...)[attr].set(newValue).  sync: the call is made
\* outside a React batch, so setState is applied before it returns.
SetStateHolder(attr, newValue, out, sync) ==
  /\ flavor = "state"
  /\ sync => NoPending
  /\ LET r == StateHolderSet(Begin(store, pending), attr, delayedWrite, HandlerKind,
                             newValue, out, sync)
     IN /\ store' = r.s.cstate
        /\ pending' = r.s.pending
        /\ last' = Spy(attr, newValue, r, sync)
  /\ UNCHANGED <<flavor, delayedWrite, hasOnChanging>>

\* holdState(component)(attr).set(newValue): a delayed-write PropHolder over
\* the object component.state, created during render.
SetHoldState(attr, newValue, sync) ==
  /\ flavor = "holdState"
  /\ sync => NoPending
  /\ LET r == PropHolderSet(Begin(store, pending), attr, TRUE, "holdState",
                            newValue, NoOutcome, sync)
     IN /\ store' = r.s.cstate
        /\ pending' = r.s.pending
        /\ last' = Spy(attr, newValue, r, sync)
  /\ UNCHANGED <<flavor, delayedWrite, hasOnChanging>>

\* React applies the queued partial state at the end of the batch.
Flush ==
  /\ flavor \in StateFlavors
  /\ ~NoPending
  /\ store' = [k \in DOMAIN store |->
                 IF pending[k] # NoReq THEN pending[k] ELSE store[k]]
  /\ pending' = [k \in DOMAIN pending |-> NoReq]
  /\ last' = [last EXCEPT !.applied = TRUE]
  /\ UNCHANGED <<flavor, delayedWrite, hasOnChanging>>

----------------------------------------------------------------------------
(* Text: a string is a sequence of one-character strings.                  *)

Chars == {"5", "a"}
MaxLen == 1
ShortTexts == UNION {[1..n -> Chars] : n \in 0..MaxLen}
\* "12a" and "5" of the parseInt example, and "0", which parseInt reads as a
\* falsy number
ScenarioTexts == {<<"1", "2", "a">>, <<"5">>, <<"0">>}
\* What the user may leave in the input element after a keystroke.
TypedTexts == ShortTexts \cup ScenarioTexts

\* state.tempText === undefined
NoText == <<"undefined">>

DigitChars == <<"0", "1", "2", "3", "4", "5", "6", "7", "8", "9">>
IsDigit(c) == \E i \in 1..10 : DigitChars[i] = c
DigitValue(c) == (CHOOSE i \in 1..10 : DigitChars[i] = c) - 1

RECURSIVE SkipWhitespace(_)
SkipWhitespace(s) ==
  IF s # <<>> /\ Head(s) = " " THEN SkipWhitespace(Tail(s)) ELSE s

\* the longest prefix of s made of decimal digits
RECURSIVE DigitPrefix(_)
DigitPrefix(s) ==
  IF s # <<>> /\ IsDigit(Head(s)) THEN <<Head(s)>> \o DigitPrefix(Tail(s)) ELSE <<>>

RECURSIVE DigitsValue(_, _)
DigitsValue(s, acc) ==
  IF s = <<>> THEN acc ELSE DigitsValue(Tail(s), 10 * acc + DigitValue(Head(s)))

\* JavaScript parseInt(s): leading whitespace, an optional sign, then as many
\* decimal digits as there are; NaN when there is none.  Trailing text is
\* ignored.
ParseInt_Strict(s) ==
  IF s # <<>> /\ \A i \in 1..Len(s) : IsDigit(s[i])
  THEN [nan |-> FALSE, n |-> DigitsValue(s, 0)]
  ELSE [nan |-> TRUE, n |-> 0]
ParseInt(s) ==
  LET t == SkipWhitespace(s)
      signed == t # <<>> /\ Head(t) \in {"+", "-"}
      d == DigitPrefix(IF signed THEN Tail(t) ELSE t)
  IN IF d = <<>>
     THEN [nan |-> TRUE, n |-> 0]
     ELSE [nan |-> FALSE,
           n |-> IF signed /\ Head(t) = "-" THEN 0 - DigitsValue(d, 0)
                 ELSE DigitsValue(d, 0)]

\* Number.prototype.toString for integers
RECURSIVE NatToString(_)
NatToString(n) ==
  IF n < 10 THEN <<DigitChars[n + 1]>>
  ELSE Append(NatToString(n \div 10), DigitChars[(n % 10) + 1])
NumberToString(n) == IF n < 0 THEN <<"-">> \o NatToString(0 - n) ELSE NatToString(n)

----------------------------------------------------------------------------
(* Dates.  A Date is kept as the whole minutes since the epoch and the     *)
(* milliseconds within that minute: valueOf() = min * 60000 + ms.  The     *)
(* local zone has a fixed offset, env.tzOffset = getTimezoneOffset().      *)

NoDate == [k |-> "undefined", min |-> 0, ms |-> 0]
InvalidDate == [k |-> "invalid", min |-> 0, ms |-> 0]
MkDate(min, ms) == [k |-> "date", min |-> min, ms |-> ms]

\* Day number (days since the epoch) of a calendar date, month 1..12
DaysFromCivil(y, m, d) ==
  LET yy == IF m <= 2 THEN y - 1 ELSE y
      era == yy \div 400
      yoe == yy - era * 400
      mp == IF m > 2 THEN m - 3 ELSE m + 9
      doy == (153 * mp + 2) \div 5 + d - 1
      doe == yoe * 365 + yoe \div 4 - yoe \div 100 + doy
  IN era * 146097 + doe - 719468

\* Calendar date of a day number
CivilFromDays(z) ==
  LET zz == z + 719468
      era == zz \div 146097
      doe == zz - era * 146097
      yoe == (doe - doe \div 1460 + doe \div 36524 - doe \div 146096) \div 365
      doy == doe - (365 * yoe + yoe \div 4 - yoe \div 100)
      mp == (5 * doy + 2) \div 153
      d == doy - (153 * mp + 2) \div 5 + 1
      m == IF mp < 10 THEN mp + 3 ELSE mp - 9
  IN [y |-> yoe + era * 400 + (IF m <= 2 THEN 1 ELSE 0), m |-> m, d |-> d]

\* MakeDay of the language standard: month index 0-based, both it and the
\* day of the month may overflow
MakeDay(y, mIdx, dt) ==
  DaysFromCivil(y + (mIdx \div 12), (mIdx % 12) + 1, 1) + dt - 1

\* new Date(Date.UTC(y, m - 1, d, h, mi, 0, ms))
DateUTC(y, m, d, h, mi, ms) == MkDate(DaysFromCivil(y, m, d) * 1440 + h * 60 + mi, ms)

\* minutes since the epoch on the local clock
LocalMinutes(date) == date.min - env.tzOffset

\* Date.setFullYear(y, mIdx, dt) with arguments as parseInt gave them: the
\* local calendar date is replaced and the local time within the day kept;
\* an Invalid Date starts from local time 0; a NaN argument gives an Invalid
\* Date.
setFullYear_Midnight(date, y, mIdx, dt) ==
  IF y.nan \/ mIdx.nan \/ dt.nan THEN InvalidDate
  ELSE MkDate(MakeDay(y.n, mIdx.n, dt.n) * 1440 + env.tzOffset, 0)
setFullYear(date, y, mIdx, dt) ==
  IF y.nan \/ mIdx.nan \/ dt.nan THEN InvalidDate
  ELSE LET tod == IF date.k = "date" THEN LocalMinutes(date) % 1440 ELSE 0
           ms == IF date.k = "date" THEN date.ms ELSE 0
       IN MkDate(MakeDay(y.n, mIdx.n, dt.n) * 1440 + tod + env.tzOffset, ms)

\* Date.setUTCHours(h, m, s, ms)
setUTCHours(date, h, m, sec, ms) ==
  IF date.k # "date" THEN date
  ELSE MkDate((date.min \div 1440) * 1440 + h * 60 + m, sec * 1000 + ms)

\* Date.setHours(h, m, s, ms)
setHours_AsUTC(date, h, m, sec, ms) == setUTCHours(date, h, m, sec, ms)
setHours(date, h, m, sec, ms) ==
  IF date.k # "date" THEN date
  ELSE MkDate((LocalMinutes(date) \div 1440) * 1440 + h * 60 + m + env.tzOffset,
              sec * 1000 + ms)

\* s[i], s.slice(a, b), s.slice(a): indices from 0
CharAt(s, i) == IF i + 1 <= Len(s) THEN s[i + 1] ELSE Undefined
Slice(s, a, b) == SubSeq(s, a + 1, IF b <= Len(s) THEN b ELSE Len(s))
SliceFrom(s, a) == SubSeq(s, a + 1, Len(s))

\* parseDate(s, utc, time); `utc` is not used by the function
parseDate(s, utc, time) ==
  IF s # <<>> /\ CharAt(s, 4) = "-" /\ CharAt(s, 7) = "-"
  THEN LET y == ParseInt(Slice(s, 0, 4))
           m == ParseInt(Slice(s, 5, 7))
           d == ParseInt(Slice(s, 8, 10))
           r == IF time.k # "undefined" THEN time
                ELSE setUTCHours(env.now, 12, 0, 0, 0)
       IN IF ~y.nan \/ ~m.nan \/ ~d.nan
          THEN setFullYear(r, y, [nan |-> m.nan, n |-> m.n - 1], d)
          ELSE NoDate
  ELSE NoDate

\* ('0' + n).slice(-2)
twoDigit(n) ==
  LET t == <<"0">> \o NumberToString(n)
  IN SubSeq(t, Len(t) - 1, Len(t))

\* Date.toISOString().substr(0, 10), for years 0 to 9999
ISODate(c) ==
  LET y == NumberToString(c.y)
      pad == [i \in 1..(4 - Len(y)) |-> "0"]
  IN pad \o y \o <<"-">> \o twoDigit(c.m) \o <<"-">> \o twoDigit(c.d)

\* Rendering toISOString() of an Invalid Date throws a RangeError
RangeError == <<"RangeError">>
NaNDate == <<"N", "a", "N", "-", "a", "N", "-", "a", "N">>
NaNTime == <<"a", "N", ":", "a", "N">>

\* dateToString(d, utc) || ""
dateToString(date, utc) ==
  IF date.k = "undefined" THEN <<>>
  ELSE IF utc
       THEN IF date.k = "invalid" THEN RangeError
            ELSE ISODate(CivilFromDays(date.min \div 1440))
       ELSE IF date.k = "invalid" THEN NaNDate
            ELSE LET c == CivilFromDays(LocalMinutes(date) \div 1440)
                 IN NumberToString(c.y) \o <<"-">> \o twoDigit(c.m)
                      \o <<"-">> \o twoDigit(c.d)

\* timeTo24hString(time, utc)
timeTo24hString(time, utc) ==
  IF time.k = "undefined" THEN <<>>
  ELSE IF time.k = "invalid" THEN NaNTime
  ELSE LET mins == (IF utc THEN time.min ELSE LocalMinutes(time)) % 1440
       IN twoDigit(mins \div 60) \o <<":">> \o twoDigit(mins % 60)

\* parse24hTime(value, day, utc)
parse24hTime(value, day, utc) ==
  IF value # <<>> /\ CharAt(value, 2) = ":"
  THEN LET h == ParseInt(Slice(value, 0, 2))
           m == ParseInt(SliceFrom(value, 3))
       IN IF ~h.nan /\ ~m.nan /\ h.n >= 0 /\ h.n < 24 /\ m.n >= 0 /\ m.n < 60
          THEN LET clone == IF day.k # "undefined" THEN day ELSE env.now
               IN IF utc THEN setUTCHours(clone, h.n, m.n, 0, 0)
                  ELSE setHours(clone, h.n, m.n, 0, 0)
          ELSE day
  ELSE day

\* oldValue || props.day
oldValueOrDay(oldValue) == IF oldValue.k # "undefined" THEN oldValue ELSE env.day

NotAnInt == "Not an int"
\* props.parse: of the TextBox example, s => parseInt(s) || new Error("Not
\* an int"), or the same function throwing the Error instead of returning it
\* ("throw"), or throwing the message itself, a string ("throwValue"); of a
\* DateBox ("date"), parseDate; of a TimeBox ("time"), parse24hTime.  Without
\* a parse prop ("none") the typed string itself is the value.
ParseProp(kind, text, oldValue) ==
  LET r == ParseInt(text)
  IN IF kind = "none"
     THEN [kind |-> "value", val |-> text, msg |-> ""]
     ELSE IF kind = "date"
     THEN [kind |-> "value", val |-> parseDate(text, env.utc, oldValue),
           msg |-> ""]
     ELSE IF kind = "time"
     THEN [kind |-> "value",
           val |-> parse24hTime(text, oldValueOrDay(oldValue), env.utc),
           msg |-> ""]
     ELSE IF r.nan \/ r.n = 0
     THEN [kind |-> IF kind = "return" THEN "error" ELSE kind,
           val |-> 0, msg |-> NotAnInt]
     ELSE [kind |-> "value", val |-> r.n, msg |-> ""]

----------------------------------------------------------------------------
(* TextBase                                                                *)

\* options.validation as exported
options ==
  [labelSpan |-> [class |-> "labelspan", style |-> Undefined],
   inputSpan |-> [class |-> "inputspan", style |-> Undefined],
   errorSpan |-> [class |-> "errorspan", style |-> Undefined,
                  emitEmptyForText |-> FALSE],
   validation |-> [keepBadText |-> "false", showErrorEarly |-> "false"]]

Truthy(x) == x \notin {"", "false", Undefined}

getEither(a, b) == IF a # Undefined THEN a ELSE b
keepBadText == Truthy(getEither(keepBadTextProp, options.validation.keepBadText))
showErrorEarly == Truthy(getEither(showErrorEarlyProp, options.validation.showErrorEarly))

\* asStr: the stringify prop of a DateBox or TimeBox; without one,
\* val.toString() of the held string (field without parse) or number
asStr(val) ==
  CASE parseKind = "date" -> dateToString(val, env.utc)
    [] parseKind = "time" -> timeTo24hString(val, env.utc)
    [] parseKind = "none" -> val
    [] OTHER -> NumberToString(val)

\* inputProps.value of render()
DisplayedText(temp, val) == IF temp # NoText THEN temp ELSE asStr(val)
Displayed == DisplayedText(tempText, Get("value"))

\* The browser's validationMessage for the text in the element: the
\* `required` constraint fails on empty text.
ValueMissing == "Please fill out this field."
ValidationMessage(domValue) ==
  IF required /\ domValue = <<>> THEN ValueMissing ELSE ""

\* TextBase.getError
getError_NativeFirst(errProp, pErr, vmsg) ==
  IF Truthy(errProp) THEN errProp
  ELSE IF vmsg # "" THEN vmsg
  ELSE IF Truthy(pErr) THEN pErr ELSE ""
getError(errProp, pErr, vmsg) ==
  IF Truthy(errProp) THEN errProp
  ELSE IF Truthy(pErr) THEN pErr
  ELSE vmsg

\* the condition of TextBase.getVisibleError
ErrorIsVisible_KeepForcesEarly(early, hadErr, pErr, keep) ==
  early \/ hadErr \/ (Truthy(pErr) /\ keep)
ErrorIsVisible_Deferred(early, hadErr, pErr, keep) == early \/ hadErr
ErrorIsVisible_Always(early, hadErr, pErr, keep) == TRUE
ErrorIsVisible(early, hadErr, pErr, keep) ==
  early \/ hadErr \/ (Truthy(pErr) /\ ~keep)

\* TextBase.getVisibleError
getVisibleError(hadErr, pErr, vmsg) ==
  IF ErrorIsVisible(showErrorEarly, hadErr, pErr, keepBadText)
  THEN getError(errorProp, pErr, vmsg)
  ELSE ""

\* `if (!this.keepBadText())` of onBlur
BlurDiscards_Always(keep) == TRUE
BlurDiscards(keep) == ~keep

\* `if (this.state.hasFocus || result instanceof Error) setState({tempText})`,
\* a statement of the `if (props.parse)` branch only
NextTempText_FocusOnly(focus, isError, typed, temp) ==
  IF focus THEN typed ELSE temp
NextTempText(focus, isError, typed, temp) ==
  IF parseKind # "none" /\ (focus \/ isError) THEN typed ELSE temp

Rejected == "Invalid age"
\* trySet: call props.value.set inside try/catch; the holder is a value holder
trySet_NoCall(newValue, out) ==
  [calls |-> 0, threw |-> FALSE, msg |-> "", r |-> SetResult(Begin(store, pending),
     FALSE, FALSE, Undefined, NoReq, store["value"], Undefined)]
trySet(newValue, out) ==
  LET r == ValueHolderSet(Begin(store, pending), delayedWrite, HandlerKind,
                          newValue, out)
  IN IF HasSet(flavor)
     THEN [calls |-> 1, threw |-> r.threw,
           msg |-> IF r.threw THEN Rejected ELSE "", r |-> r]
     ELSE [calls |-> 0, threw |-> FALSE, msg |-> "",
           r |-> SetResult(Begin(store, pending), FALSE, FALSE, Undefined,
                           NoReq, store["value"], Undefined)]

\* isDisabled: `props.disabled || !(props.value && props.value.set)`
isDisabled(disabledProp, fl) == disabledProp \/ ~HasSet(fl)

NoEvent ==
  [kind |-> "none", text |-> <<>>, outcome |-> "none", setCalls |-> 0,
   setArg |-> 0, setThrew |-> FALSE, escaped |-> FALSE]

\* `result instanceof Error` after props.parse returned or threw
IsErrorInstance(kind) == kind \in {"error", "throw"}

\* `catch(e)` of onChange and of trySet: whatever is thrown is caught
Catches_Nothing(kind) == FALSE
Catches(kind) == TRUE

\* onChange: the user changed the element's text to `typed`
onChange(typed, out) ==
  LET p == ParseProp(parseKind, typed, Get("value"))
      t == trySet(p.val, out)
      called == p.kind = "value" /\ t.calls = 1
      thrown == IF p.kind \in {"throw", "throwValue"} THEN p.kind
                ELSE IF called /\ t.threw THEN "throw" ELSE "none"
      escaped == thrown # "none" /\ ~Catches(thrown)
      isError == IsErrorInstance(p.kind) \/ (called /\ t.threw)
      errorMsg == IF IsErrorInstance(p.kind) THEN p.msg
                  ELSE IF called /\ t.threw THEN t.msg ELSE Undefined
      pe == IF escaped THEN parseError ELSE errorMsg
  IN /\ store' = IF called THEN t.r.s.model ELSE store
     /\ tempText' = IF escaped THEN tempText
                    ELSE NextTempText(hasFocus, isError, typed, tempText)
     /\ parseError' = pe
     /\ visibleError' = getVisibleError(hadError, pe, ValidationMessage(typed))
     /\ ev' = [kind |-> "change", text |-> typed, outcome |-> p.kind,
               setCalls |-> IF called THEN 1 ELSE 0,
               setArg |-> IF called THEN p.val ELSE 0,
               setThrew |-> called /\ t.threw,
               escaped |-> escaped]
     /\ UNCHANGED <<hasFocus, hadError, last>>

\* onBlur
onBlur ==
  LET vmsg == ValidationMessage(Displayed)
      he == Truthy(getError(errorProp, parseError, vmsg))
      pe == IF BlurDiscards(keepBadText) THEN "" ELSE parseError
  IN /\ hasFocus' = FALSE
     /\ hadError' = he
     /\ tempText' = IF BlurDiscards(keepBadText) THEN NoText ELSE tempText
     /\ parseError' = pe
     /\ visibleError' = getVisibleError(he, pe, vmsg)
     /\ ev' = [NoEvent EXCEPT !.kind = "blur"]
     /\ UNCHANGED <<store, last>>

\* onFocus
onFocus ==
  /\ hasFocus' = TRUE
  /\ visibleError' = getVisibleError(hadError, parseError, ValidationMessage(Displayed))
  /\ ev' = [NoEvent EXCEPT !.kind = "focus"]
  /\ UNCHANGED <<store, last, tempText, hadError, parseError>>

\* No non-text wrapper is mounted.
NoInput == [type |-> "none", group |-> {}]
NoRender == [control |-> FALSE, error |-> "", disabled |-> FALSE]
InputIdle == input = NoInput /\ rendered = NoRender

\* No DateBox/TimeBox is mounted.
NoEnv == [utc |-> FALSE, tzOffset |-> 0, day |-> NoDate, now |-> NoDate]
DateIdle == env = NoEnv

\* composeWithLabel has not been called.
LayoutIdle == layout = [markup |-> << >>]

textProps == <<parseKind, keepBadTextProp, showErrorEarlyProp, required, errorProp>>
holderProps == <<flavor, delayedWrite, hasOnChanging, pending>>

InitialNumber == 1
\* A handler that validates: accepts the value or throws.
ValidatorOutcomes ==
  IF hasOnChanging THEN {NoOutcome, [kind |-> "throw", val |-> Undefined]}
  ELSE {NoOutcome}

\* The field as first rendered, bound to holdValue(InitialNumber[, validator]).
Mounted ==
  /\ flavor = "value"
  /\ delayedWrite = FALSE
  /\ store = [value |-> InitialNumber]
  /\ pending = [value |-> NoReq]
  /\ last = NoCall
  /\ keepBadTextProp \in {Undefined, "true", "false"}
  /\ showErrorEarlyProp \in {Undefined, "true", "false"}
  /\ tempText = NoText
  /\ hasFocus = FALSE
  /\ hadError = FALSE
  /\ parseError = Undefined
  /\ visibleError = getVisibleError(FALSE, Undefined, "")
  /\ ev = NoEvent
  /\ InputIdle
  /\ DateIdle
  /\ LayoutIdle

\* Fields without an error prop or native constraint; parse may return or
\* throw its Error and the holder may have a validating handler.
InitText ==
  /\ hasOnChanging \in BOOLEAN
  /\ parseKind \in {"return", "throw"}
  /\ required = FALSE
  /\ errorProp = ""
  /\ Mounted

\* Fields that may have an error prop and the `required` constraint.
InitTextErrors ==
  /\ hasOnChanging = FALSE
  /\ parseKind = "return"
  /\ required \in BOOLEAN
  /\ errorProp \in {"", "E"}
  /\ Mounted

\* A field with or without a parse prop, bound to a validating holder of
\* either write mode; the field without parse holds a string.
InitialString == << >>
InitTextSet ==
  /\ hasOnChanging = TRUE
  /\ parseKind \in {"return", "none"}
  /\ required = FALSE
  /\ errorProp = ""
  /\ flavor = "value"
  /\ delayedWrite \in BOOLEAN
  /\ store = [value |-> IF parseKind = "none" THEN InitialString ELSE InitialNumber]
  /\ pending = [value |-> NoReq]
  /\ last = NoCall
  /\ keepBadTextProp \in {Undefined, "true"}
  /\ showErrorEarlyProp \in {Undefined, "true"}
  /\ tempText = NoText
  /\ hasFocus = FALSE
  /\ hadError = FALSE
  /\ parseError = Undefined
  /\ visibleError = getVisibleError(FALSE, Undefined, "")
  /\ ev = NoEvent
  /\ InputIdle
  /\ DateIdle
  /\ LayoutIdle

\* Fields whose parse function throws, bound to a validating holder.
InitTextThrow ==
  /\ hasOnChanging = TRUE
  /\ parseKind \in {"throw", "throwValue"}
  /\ required = FALSE
  /\ errorProp = ""
  /\ Mounted

\* what an event of the text field leaves alone
textFrame == <<textProps, holderProps, inputVars, env, layout>>

NextText ==
  \/ \E typed \in TypedTexts, out \in ValidatorOutcomes :
       onChange(typed, out) /\ UNCHANGED textFrame
  \/ onBlur /\ UNCHANGED textFrame
  \/ onFocus /\ UNCHANGED textFrame

SpecText == InitText /\ [][NextText]_vars
SpecTextErrors == InitTextErrors /\ [][NextText]_vars
SpecTextThrow == InitTextThrow /\ [][NextText]_vars
SpecTextSet == InitTextSet /\ [][NextText]_vars

----------------------------------------------------------------------------
(* Non-text wrappers: CheckBox, Radio, Slider, ColorPicker                 *)

\* JavaScript values of a Radio group's type T: a type tag and the value
\* written as a string.
JS(t, v) == [t |-> t, v |-> v]
JSUndefined == JS("undefined", "")
JSNull == JS("null", "")
JSTrue == JS("boolean", "true")
JSFalse == JS("boolean", "false")
\* `is` props: the fruit names of the demo, the true/false/null of Radio's
\* documentation, and a number next to the string that spells it.
Discriminants ==
  {JS("string", "apple"), JS("string", "banana"), JS("string", "1"),
   JS("number", "1"), JSTrue, JSFalse, JSNull}

\* ToNumber of a string, a number or a boolean, as a numeral or "NaN"
NumericStrings == {"0", "1"}
ToNumber(x) ==
  CASE x.t = "number" -> x.v
    [] x.t = "boolean" -> IF x.v = "true" THEN "1" ELSE "0"
    [] x.t = "string" -> IF x.v = "" THEN "0"
                         ELSE IF x.v \in NumericStrings THEN x.v ELSE "NaN"
    [] OTHER -> "NaN"

\* a == b
LooseEq(a, b) ==
  LET nullish == {"null", "undefined"}
  IN IF a.t = b.t THEN a = b
     ELSE IF a.t \in nullish \/ b.t \in nullish
          THEN a.t \in nullish /\ b.t \in nullish
          ELSE ToNumber(a) = ToNumber(b) /\ ToNumber(a) # "NaN"

\* !!x
JSTruthy(x) ==
  CASE x.t = "boolean" -> x.v = "true"
    [] x.t = "string" -> x.v # ""
    [] x.t = "number" -> x.v \notin {"0", "NaN"}
    [] OTHER -> FALSE

\* Radio: the `checked` attribute
RadioChecked(value, is) ==
  IF is # JSUndefined THEN LooseEq(value, is) ELSE JSTruthy(value)

\* Radios of one group: several, with pairwise distinct `is` props
MaxRadios == 3
RadioGroups == {g \in SUBSET Discriminants : Cardinality(g) \in 2..MaxRadios}

\* CheckBox: e.target.checked after the user clicked the box
ClickedChecked_Same(checked) == checked
ClickedChecked(checked) == ~checked

\* Slider: parseFloat(e.target.value); a range input with an integer step
\* holds an integer numeral, which parseFloat reads as parseInt does
parseFloat(s) == ParseInt(s).n
SliderTexts == {<<"0">>, <<"5">>, <<"1", "0">>}
ColorTexts == {"#000000", "#ff0000"}

\* getError(p) for an error prop that is a plain string
getPropError(errProp) == errProp

\* renderInput with the attributes each wrapper passes to it: `checked`
\* (for a Radio group, the set of Radios rendered checked) or `value`, and
\* the error given to composeWithLabel
renderInput(p, value) ==
  [control |-> IF p.type = "radio"
               THEN {is \in p.group : RadioChecked(value, is)}
               ELSE value,
   error |-> getPropError(errorProp),
   disabled |-> isDisabled(FALSE, flavor)]

\* the onChange of every non-text wrapper: trySet(props, newValue), result
\* dropped; then the form is rendered again
inputChange(newValue, out) ==
  LET t == trySet(newValue, out)
  IN /\ store' = t.r.s.model
     /\ ev' = [NoEvent EXCEPT !.kind = "change", !.setCalls = t.calls,
                              !.setArg = newValue, !.setThrew = t.threw,
                              !.escaped = t.threw /\ ~Catches("throw")]
     /\ rendered' = renderInput(input, store'["value"])
     /\ UNCHANGED <<last, tempText, hasFocus, hadError, parseError,
                    visibleError>>

CheckBoxChange(out) ==
  /\ input.type = "checkbox"
  /\ inputChange(ClickedChecked(rendered.control), out)

\* the user selects the Radio whose prop is `is`; a Radio that is already
\* checked gets no change event
RadioChange(is, out) ==
  /\ input.type = "radio"
  /\ is \in input.group
  /\ is \notin rendered.control
  /\ inputChange(IF is # JSUndefined THEN is ELSE JSTrue, out)

SliderChange(text, out) ==
  /\ input.type = "range"
  /\ inputChange(parseFloat(text), out)

ColorPickerChange(color, out) ==
  /\ input.type = "color"
  /\ inputChange(color, out)

Inputs ==
  {[type |-> t, group |-> {}] : t \in {"checkbox", "range", "color"}}
    \cup {[type |-> "radio", group |-> g] : g \in RadioGroups}

\* what the holder may hold when the wrapper is first rendered
InitialValues(p) ==
  CASE p.type = "checkbox" -> BOOLEAN
    [] p.type = "radio" -> {JSUndefined} \cup p.group
    [] p.type = "range" -> {InitialNumber}
    [] OTHER -> {"#000000"}

InitInputs ==
  /\ flavor = "value"
  /\ delayedWrite \in BOOLEAN
  /\ hasOnChanging \in BOOLEAN
  /\ input \in Inputs
  /\ store \in {[value |-> v] : v \in InitialValues(input)}
  /\ pending = [value |-> NoReq]
  /\ last = NoCall
  /\ parseKind = "return"
  /\ keepBadTextProp = Undefined
  /\ showErrorEarlyProp = Undefined
  /\ required = FALSE
  /\ errorProp \in {"", "E"}
  /\ tempText = NoText
  /\ hasFocus = FALSE
  /\ hadError = FALSE
  /\ parseError = Undefined
  /\ visibleError = ""
  /\ ev = NoEvent
  /\ rendered = renderInput(input, store["value"])
  /\ DateIdle
  /\ LayoutIdle

inputFrame == <<textProps, holderProps, input, env, layout>>

NextInputs ==
  \/ \E out \in ValidatorOutcomes : CheckBoxChange(out) /\ UNCHANGED inputFrame
  \/ \E is \in Discriminants, out \in ValidatorOutcomes :
       RadioChange(is, out) /\ UNCHANGED inputFrame
  \/ \E text \in SliderTexts, out \in ValidatorOutcomes :
       SliderChange(text, out) /\ UNCHANGED inputFrame
  \/ \E color \in ColorTexts, out \in ValidatorOutcomes :
       ColorPickerChange(color, out) /\ UNCHANGED inputFrame

SpecInputs == InitInputs /\ [][NextInputs]_vars

\* One field or wrapper bound to a read-only holder: `value={{get: v}}`.
InitReadOnly ==
  /\ flavor = "get"
  /\ delayedWrite = FALSE
  /\ hasOnChanging = FALSE
  /\ input \in {NoInput} \cup Inputs
  /\ parseKind \in IF input = NoInput THEN {"return", "throw", "none"}
                   ELSE {"return"}
  /\ store \in IF input # NoInput
               THEN {[value |-> v] : v \in InitialValues(input)}
               ELSE {[value |-> IF parseKind = "none" THEN InitialString
                                ELSE InitialNumber]}
  /\ pending = [value |-> NoReq]
  /\ last = NoCall
  /\ keepBadTextProp \in {Undefined, "true"}
  /\ showErrorEarlyProp = Undefined
  /\ required = FALSE
  /\ errorProp = ""
  /\ tempText = NoText
  /\ hasFocus = FALSE
  /\ hadError = FALSE
  /\ parseError = Undefined
  /\ visibleError = ""
  /\ ev = NoEvent
  /\ rendered = IF input = NoInput THEN NoRender
                ELSE renderInput(input, store["value"])
  /\ DateIdle
  /\ LayoutIdle

NextReadOnly ==
  \/ input = NoInput /\ NextText
  \/ input # NoInput /\ NextInputs

SpecReadOnly == InitReadOnly /\ [][NextReadOnly]_vars

----------------------------------------------------------------------------
(* The default composer.  Markup is the sequence of tags and text nodes of *)
(* the rendered tree in document order.                                    *)

\* an error given as a JSX element instead of a string
ErrorElement == "<b>Required</b>"

Paragraph(children) == <<"<p>">> \o children \o <<"</p>">>
InputSpan(children) == <<"<InputSpan>">> \o children \o <<"</InputSpan>">>
ErrorSpan(children) == <<"<ErrorSpan>">> \o children \o <<"</ErrorSpan>">>

\* LabelSpan(p), called by Label with its own props: `p.label || p.children`
LabelSpan(p, children) ==
  <<"<LabelSpan>">>
    \o (IF Truthy(p.label) THEN <<p.label>> ELSE children)
    \o <<"</LabelSpan>">>

Label(p, children) ==
  LET ois == options.inputSpan
      inner == IF ~p.noInputSpan /\ (Truthy(ois.class) \/ Truthy(ois.style))
               THEN InputSpan(children) ELSE children
      label == <<"<label>">>
                 \o (IF p.labelAfter THEN inner \o LabelSpan(p, children)
                     ELSE LabelSpan(p, children) \o inner)
                 \o <<"</label>">>
  IN IF p.p THEN Paragraph(label) ELSE label

preferLabelAfter_Never(type) == FALSE
preferLabelAfter(type) == type \in {"checkbox", "radio"}

isTextBox(type) ==
  ~preferLabelAfter(type) /\ type \notin {"range", "button", "color"}

\* the condition under which the composer adds the error to the markup
EmitsError_WheneverError(p, type, error, oes) == Truthy(error)
EmitsError(p, type, error, oes) ==
  /\ ~p.noErrorSpan
  /\ Truthy(error) \/ (oes.emitEmptyForText /\ isTextBox(type))
  /\ Truthy(oes.class) \/ Truthy(oes.style)

defaultComposer(el, type, p, error, oes) ==
  LET labelAfter == IF p.labelAfter # Undefined THEN p.labelAfter = "true"
                    ELSE preferLabelAfter(type)
      emit == EmitsError(p, type, error, oes)
      \* React renders nothing for undefined and for the empty string
      errorNode == IF error = ErrorElement THEN <<error>>
                   ELSE IF error \in {Undefined, ""} THEN ErrorSpan(<< >>)
                   ELSE ErrorSpan(<<error>>)
      special == emit /\ labelAfter /\ p.label # Undefined
      labelled == IF special
                  THEN Label([label |-> p.label, labelAfter |-> TRUE,
                              p |-> p.p, noInputSpan |-> TRUE], el)
                  ELSE el
      label == IF special THEN Undefined ELSE p.label
      el2 == IF ~emit THEN el
             ELSE IF p.errorFirst THEN InputSpan(errorNode \o labelled)
             ELSE InputSpan(labelled \o errorNode)
  IN IF label = Undefined
     THEN IF p.p THEN Paragraph(el2) ELSE el2
     ELSE Label([label |-> label, labelAfter |-> labelAfter, p |-> p.p,
                 noInputSpan |-> emit \/ p.noInputSpan], el2)

\* index of the first occurrence of a tag or text node in the markup
Has(doc, tok) == \E i \in 1..Len(doc) : doc[i] = tok
IndexOf(doc, tok) ==
  CHOOSE i \in 1..Len(doc) : doc[i] = tok /\ \A j \in 1..(i-1) : doc[j] # tok
Before(doc, a, b) == IndexOf(doc, a) < IndexOf(doc, b)

\* composeWithLabel(el, type, p, error) with options.composeElementWithLabel
\* left at defaultComposer; el is the control
composeWithLabel ==
  /\ layout.markup = << >>
  /\ layout' = [layout EXCEPT !.markup =
                  defaultComposer(<<"<input>">>, layout.type, layout.p,
                                  layout.error, layout.oes)]
  /\ UNCHANGED <<holderVars, textVars, inputVars, env>>

\* the arguments of the call and the setting of options.errorSpan
InitComposer ==
  /\ layout \in
       [type : {Undefined, "text", "textarea", "checkbox", "radio", "range",
                "button", "color"},
        p : [label : {Undefined, "", "Name:"},
             labelAfter : {Undefined, "true", "false"},
             p : BOOLEAN, noInputSpan : BOOLEAN, noErrorSpan : BOOLEAN,
             errorFirst : BOOLEAN],
        error : {Undefined, "", "Required", ErrorElement},
        oes : [class : {options.errorSpan.class, Undefined},
               style : {options.errorSpan.style, "color:red"},
               emitEmptyForText : BOOLEAN],
        markup : {<< >>}]
  /\ flavor = "value"
  /\ delayedWrite = FALSE
  /\ hasOnChanging = FALSE
  /\ store = [value |-> InitialNumber]
  /\ pending = [value |-> NoReq]
  /\ last = NoCall
  /\ parseKind = "return"
  /\ keepBadTextProp = Undefined
  /\ showErrorEarlyProp = Undefined
  /\ required = FALSE
  /\ errorProp = ""
  /\ tempText = NoText
  /\ hasFocus = FALSE
  /\ hadError = FALSE
  /\ parseError = Undefined
  /\ visibleError = ""
  /\ ev = NoEvent
  /\ InputIdle
  /\ DateIdle

SpecComposer == InitComposer /\ [][composeWithLabel]_vars

----------------------------------------------------------------------------
(* DateBox and TimeBox: a TextBox whose parse and stringify props are the  *)
(* date functions.                                                         *)

\* the clock, new Date(): 2024-03-10T15:45:30.500Z
Clock == DateUTC(2024, 3, 10, 15, 45, 30500)
\* Dates the holder may hold at first: a leap day late in the UTC evening
\* and a new year's eve early in the UTC morning, with seconds and
\* milliseconds
HeldDates == {DateUTC(2020, 2, 29, 23, 30, 15250), DateUTC(2021, 12, 31, 2, 5, 59999)}
\* the day prop of a TimeBox, when given
DayProp == DateUTC(2019, 7, 4, 20, 0, 0)
\* getTimezoneOffset() in UTC-5, UTC and UTC+9
TzOffsets == {300, 0, -540}

\* texts of an <input type="date">: two dates, the empty text of a cleared
\* field and a typed text that is not a date
ValidDateTexts ==
  {<<"2", "0", "2", "4", "-", "0", "3", "-", "1", "5">>,
   <<"2", "0", "2", "3", "-", "0", "1", "-", "0", "1">>}
DateTexts == ValidDateTexts \cup {<<>>, <<"2", "0", "2", "4", "-", "x", "x", "-", "0", "1">>}

\* texts of an <input type="time">, with the hours and minutes they spell
ValidTimes ==
  {[text |-> <<"0", "9", ":", "3", "0">>, h |-> 9, m |-> 30],
   [text |-> <<"2", "3", ":", "5", "9">>, h |-> 23, m |-> 59]}
TimeTexts == {t.text : t \in ValidTimes} \cup {<<>>, <<"2", "4", ":", "0", "0">>}

FieldTexts == IF parseKind = "date" THEN DateTexts ELSE TimeTexts

InitDates ==
  /\ flavor = "value"
  /\ delayedWrite = FALSE
  /\ hasOnChanging = FALSE
  /\ parseKind \in {"date", "time"}
  /\ env \in [utc : BOOLEAN, tzOffset : TzOffsets,
              day : IF parseKind = "time" THEN {NoDate, DayProp} ELSE {NoDate},
              now : {Clock}]
  /\ store \in {[value |-> d] : d \in HeldDates \cup {NoDate}}
  /\ pending = [value |-> NoReq]
  /\ last = NoCall
  /\ keepBadTextProp = Undefined
  /\ showErrorEarlyProp = Undefined
  /\ required = FALSE
  /\ errorProp = ""
  /\ tempText = NoText
  /\ hasFocus = FALSE
  /\ hadError = FALSE
  /\ parseError = Undefined
  /\ visibleError = ""
  /\ ev = NoEvent
  /\ InputIdle
  /\ LayoutIdle

NextDates ==
  \/ \E typed \in FieldTexts, out \in ValidatorOutcomes :
       onChange(typed, out) /\ UNCHANGED textFrame
  \/ onBlur /\ UNCHANGED textFrame
  \/ onFocus /\ UNCHANGED textFrame

SpecDates == InitDates /\ [][NextDates]_vars

----------------------------------------------------------------------------
\* The text field is not mounted in SpecHolders.
TextIdle ==
  /\ parseKind = "return"
  /\ keepBadTextProp = Undefined
  /\ showErrorEarlyProp = Undefined
  /\ required = FALSE
  /\ errorProp = ""
  /\ tempText = NoText
  /\ hasFocus = FALSE
  /\ hadError = FALSE
  /\ parseError = Undefined
  /\ visibleError = ""
  /\ ev = NoEvent
  /\ InputIdle
  /\ DateIdle
  /\ LayoutIdle

InitHolders ==
  /\ flavor \in Flavors
  /\ delayedWrite \in (IF flavor = "holdState" THEN {TRUE} ELSE BOOLEAN)
  /\ hasOnChanging \in (IF flavor = "holdState" THEN {TRUE} ELSE BOOLEAN)
  /\ store \in [Keys(flavor) -> Values]
  /\ pending = [k \in Keys(flavor) |-> NoReq]
  /\ last = NoCall
  /\ TextIdle

NextHolders ==
  \/ \E v \in Values, out \in Outcomes :
       SetValueHolder(v, out) /\ UNCHANGED <<textVars, inputVars, env, layout>>
  \/ \E a \in Keys(flavor), v \in Values, out \in Outcomes :
       SetPropHolder(a, v, out) /\ UNCHANGED <<textVars, inputVars, env, layout>>
  \/ \E a \in Keys(flavor), v \in Values, out \in Outcomes, sync \in BOOLEAN :
       SetStateHolder(a, v, out, sync) /\ UNCHANGED <<textVars, inputVars, env, layout>>
  \/ \E a \in Keys(flavor), v \in Values, sync \in BOOLEAN :
       SetHoldState(a, v, sync) /\ UNCHANGED <<textVars, inputVars, env, layout>>
  \/ Flush /\ UNCHANGED <<textVars, inputVars, env, layout>>

SpecHolders == InitHolders /\ [][NextHolders]_vars

----------------------------------------------------------------------------
(* Claims about holders, read off the spy record of the last set() call.   *)

UserFlavors == {"value", "prop", "state"}

\* set(v) returned and its handler, if any, returned undefined
SetAccepted ==
  /\ last.op = "set"
  /\ flavor \in UserFlavors
  /\ ~last.threw
  /\ (last.called => last.result = Undefined)

\* C1 as claimed: for every flavor and both write modes, immediately after
\* set(v) returns without the handler replacing v, holder.get = v.
C1_GetIsNewValueImmediately ==
  (SetAccepted /\ ~last.applied) => Get(last.attr) = last.newValue

\* C1 amended: immediately after set(v) returns without the handler
\* replacing v, a value or property holder has get = v; a state holder has
\* get = v or has a queued setState request {attr: v}.
C1_GetOrRequestIsNewValue ==
  (SetAccepted /\ ~last.applied) =>
     \/ Get(last.attr) = last.newValue
     \/ flavor = "state" /\ pending[last.attr] = last.newValue

C1_Witness ==
  /\ SetAccepted /\ ~last.applied
  /\ flavor = "state" /\ last.called
  /\ last.before # last.newValue
  /\ Get(last.attr) # last.newValue
  /\ pending[last.attr] = last.newValue

\* C2 as claimed: for every flavor and write mode, with or without a
\* handler, set(v) with v identical to the stored value performs no write:
\* no assignment and no setState request.
C2_NoWriteWhenSame ==
  (last.op = "set" /\ flavor \in UserFlavors /\ last.newValue = last.before) =>
     last.writes = 0 /\ last.requests = 0

\* C2 amended: set(v) with v identical to the stored value performs no
\* assignment and no setState request when the holder has no handler, or is
\* delayed-write and its handler returns undefined or v.
C2_NoWriteWhenSameDelayed ==
  (/\ last.op = "set" /\ flavor \in UserFlavors
   /\ last.newValue = last.before
   /\ \/ ~hasOnChanging
      \/ delayedWrite /\ ~last.threw /\ last.result \in {Undefined, last.newValue})
  => last.writes = 0 /\ last.requests = 0

C2_Witness ==
  /\ last.op = "set" /\ flavor = "state"
  /\ last.newValue = last.before
  /\ hasOnChanging /\ delayedWrite /\ last.called /\ ~last.threw
  /\ last.result = last.newValue
  /\ last.requests = 0

\* C3 as claimed: when the handler runs, a delayed-write holder still has
\* get = old value = the oldValue argument, and an eager-write holder of any
\* flavor already has get = proposed value.
C3_HandlerSeesWriteOrder ==
  (last.op = "set" /\ last.called) =>
     /\ delayedWrite => last.seenGet = last.before /\ last.oldValue = last.before
     /\ ~delayedWrite => last.seenGet = last.newValue

\* C3 amended: when the handler runs, a delayed-write holder still has
\* get = old value = the oldValue argument; an eager-write value or property
\* holder already has get = proposed value; an eager-write state holder has
\* get = proposed value or a queued setState request for it.
C3_HandlerSeesWriteOrRequest ==
  (last.op = "set" /\ last.called) =>
     /\ delayedWrite => last.seenGet = last.before /\ last.oldValue = last.before
     /\ ~delayedWrite =>
          \/ last.seenGet = last.newValue
          \/ flavor = "state" /\ last.seenPending = last.newValue

C3_Witness ==
  /\ last.op = "set" /\ last.called /\ ~delayedWrite
  /\ flavor = "state" /\ ~last.sync
  /\ last.seenGet # last.newValue
  /\ last.seenPending = last.newValue

\* C4 as claimed: if the handler returns a defined value r, then once set has
\* returned and every state update it requested is applied, holder.get = r
\* (returning the old value vetoes the change).
C4_ReplacementIsFinal ==
  (/\ last.op = "set" /\ flavor \in UserFlavors
   /\ last.called /\ ~last.threw /\ last.result # Undefined
   /\ NoPending)
  => Get(last.attr) = last.result

\* C5 as claimed: set on a holdState holder never assigns into
\* component.state; its only effect is one setState request.
C5_HoldStateOnlyRequests ==
  (flavor = "holdState" /\ last.op = "set") =>
     last.writes = 0 /\ last.requests = 1

----------------------------------------------------------------------------
(* Claims about the text field.  ev' names the handler a step ran.         *)

ParseFailed == ev.outcome \in {"error", "throw"}

\* C6: a change event whose parse returns or throws an Error does not call
\* holder.set and leaves the holder's value as it was; afterwards the field
\* shows the typed text and its parse error is the Error's message.
C6_ParseErrorKeepsTypedText ==
  [][(ev'.kind = "change" /\ ParseFailed') =>
       /\ ev'.setCalls = 0
       /\ store' = store
       /\ Displayed' = ev'.text
       /\ parseError' = NotAnInt]_vars

C6_Witness ==
  /\ ev.kind = "change" /\ ev.outcome = "throw"
  /\ ~hasFocus
  /\ Displayed = ev.text /\ Displayed # asStr(Get("value"))
  /\ parseError = NotAnInt

\* C7: a change event whose parse returns a non-Error value p, with a
\* holder.set that does not throw, calls holder.set exactly once with p and
\* leaves the parse error empty, whatever it was before.
C7_ParsedValueIsSetOnce ==
  (ev.kind = "change" /\ ev.outcome = "value" /\ ~ev.setThrew) =>
     /\ ev.setCalls = 1
     /\ ev.setArg = ParseInt(ev.text).n
     /\ ~Truthy(parseError)

\* the field kept a parse error over a blur, and this change cleared it
C7_Witness ==
  /\ ev.kind = "change" /\ ev.outcome = "value" /\ ~ev.setThrew
  /\ hasOnChanging /\ keepBadText /\ hadError
  /\ ev.setCalls = 1 /\ Get("value") = ev.setArg
  /\ ~Truthy(parseError)

\* The scenario's field: parse = s => parseInt(s) || Error, a plain numeric
\* holder, no validation props.
Scenario ==
  /\ parseKind = "return" /\ ~hasOnChanging
  /\ keepBadTextProp = Undefined /\ showErrorEarlyProp = Undefined
  /\ errorProp = "" /\ ~required

\* C8 as claimed: typing "12a" leaves the Holder unchanged and shows an
\* error; typing "5" sets the Holder to 5 and clears the error.
C8_ScenarioAsClaimed ==
  (Scenario /\ ev.kind = "change") =>
     /\ ev.text = <<"1", "2", "a">> => ev.setCalls = 0 /\ visibleError # ""
     /\ ev.text = <<"5">> => Get("value") = 5 /\ visibleError = ""

\* C8 amended: typing "12a" sets the Holder to 12 (parseInt reads the
\* leading digits) and shows no error; typing "a" leaves the Holder
\* unchanged and shows the error; typing "5" sets the Holder to 5 and
\* clears the error.
C8_ScenarioParseInt ==
  [][(Scenario /\ ev'.kind = "change") =>
       /\ ev'.text = <<"1", "2", "a">> =>
            store'["value"] = 12 /\ visibleError' = ""
       /\ ev'.text = <<"a">> =>
            store' = store /\ ev'.setCalls = 0 /\ visibleError' = NotAnInt
       /\ ev'.text = <<"5">> =>
            store'["value"] = 5 /\ visibleError' = ""]_vars

C8_Witness ==
  /\ Scenario /\ ev.kind = "change"
  /\ ev.text = <<"1", "2", "a">>
  /\ Get("value") = 12
  /\ visibleError = ""

\* C9: a blur with keepBadText not in effect clears the transient text and
\* the parse error, so the field shows stringify(holder.get); a blur with
\* keepBadText in effect leaves both as they were.
C9_BlurSemantics ==
  [][ev'.kind = "blur" =>
       /\ ~keepBadText =>
            /\ tempText' = NoText
            /\ ~Truthy(parseError')
            /\ Displayed' = asStr(store'["value"])
       /\ keepBadText =>
            /\ tempText' = tempText
            /\ parseError' = parseError]_vars

C9_Witness ==
  /\ ev.kind = "blur" /\ keepBadText
  /\ tempText # NoText /\ Truthy(parseError)
  /\ Displayed # asStr(Get("value"))

\* C10 as claimed: a pending parse error is displayed exactly when
\* showErrorEarly is in effect, or keepBadText is in effect (which forces
\* early display), or the field lost focus with an error.
C10_KeepBadTextForcesEarly ==
  Truthy(parseError) =>
     (visibleError # "" <=> (showErrorEarly \/ keepBadText \/ hadError))

\* C10 amended: display of an error is deferred until the field's latest
\* blur found it with an error, unless showErrorEarly is in effect, or
\* unless a parse error is pending and keepBadText is NOT in effect, in which
\* case it is displayed at once; with keepBadText in effect a pending parse
\* error stays hidden until such a blur.
C10_DiscardingForcesEarly ==
  /\ Truthy(parseError) =>
       (visibleError # "" <=> (showErrorEarly \/ ~keepBadText \/ hadError))
  /\ ~Truthy(parseError) =>
       (visibleError # "" => (showErrorEarly \/ hadError))

C10_Witness ==
  /\ ev.kind = "change"
  /\ keepBadText /\ ~showErrorEarly /\ ~hadError
  /\ Truthy(parseError)
  /\ visibleError = ""

\* C11: right after a change event whose parse failed, with keepBadText not
\* in effect, the field displays its error exactly as it would with
\* showErrorEarly in effect: the displayed error is non-empty and is the
\* field's reported error, whatever showErrorEarly is and whether or not the
\* field ever lost focus.
C11_ParseErrorShownAtOnce ==
  (ev.kind = "change" /\ ParseFailed /\ ~keepBadText) =>
     /\ visibleError # ""
     /\ visibleError = getError(errorProp, parseError, ValidationMessage(ev.text))

C11_Witness ==
  /\ ev.kind = "change" /\ ParseFailed
  /\ ~keepBadText /\ ~showErrorEarly /\ ~hadError /\ hasFocus
  /\ visibleError = NotAnInt

\* The element's className contains "user-invalid" (render)
UserInvalid == visibleError # ""

\* C12: in every state, an error is displayed (and the element is marked
\* user-invalid) only if showErrorEarly is in effect, or the latest blur found
\* the field with an error, or a parse error is pending while keepBadText is
\* not in effect; otherwise nothing is displayed, whatever errors exist.
C12_DeferredDisplay ==
  LET allowed == showErrorEarly \/ hadError
                 \/ (Truthy(parseError) /\ ~keepBadText)
  IN /\ (visibleError # "" \/ UserInvalid) => allowed
     /\ ~allowed => (visibleError = "" /\ ~UserInvalid)

C12_Witness ==
  /\ ev.kind = "change" /\ ev.text = <<>>
  /\ errorProp = "E" /\ required /\ Truthy(parseError)
  /\ keepBadText /\ ~showErrorEarly /\ ~hadError
  /\ visibleError = ""

\* The element's current validationMessage
NativeMessage == ValidationMessage(Displayed)

C14_ParseErrorOverridesErrorProp ==
  (Truthy(parseError) /\ visibleError # "") => visibleError = parseError

\* something was thrown during the last change event
Thrown == ev.outcome \in {"throw", "throwValue"} \/ ev.setThrew
ThrownMessage == IF ev.setThrew THEN Rejected ELSE NotAnInt

C16_SetErrorIsSurfaced ==
  (input.type # "none" /\ ev.kind = "change" /\ ev.setThrew) =>
     /\ ~ev.escaped
     /\ rendered.error = Rejected

\* C17: a CheckBox is always rendered with checked = holder.get; each change
\* event calls holder.set exactly once, with the negation of the rendered
\* checked state; only booleans are stored, and when the holder takes the
\* value the stored boolean flips.
C17_CheckBoxFollowsHolder ==
  [][input.type = "checkbox" =>
       /\ rendered.control = store["value"]
       /\ rendered'.control = store'["value"]
       /\ ev'.kind = "change" =>
            /\ ev'.setCalls = 1
            /\ ev'.setArg = ~rendered.control
            /\ store'["value"] \in BOOLEAN
            /\ ~ev'.setThrew => store'["value"] = ~store["value"]]_vars

C17_Witness ==
  /\ input.type = "checkbox" /\ ev.kind = "change"
  /\ ~ev.setThrew /\ ev.setCalls = 1 /\ ev.setArg = FALSE
  /\ store["value"] = FALSE /\ rendered.control = FALSE

\* C18 as claimed: in a Radio group with pairwise distinct `is` props, at
\* most one Radio is rendered checked, and after selecting a Radio (the
\* holder taking the value) exactly that Radio is rendered checked.
C18_RadioGroupExclusive ==
  input.type = "radio" =>
     /\ Cardinality(rendered.control) <= 1
     /\ (ev.kind = "change" /\ ~ev.setThrew) =>
          /\ store["value"] = ev.setArg
          /\ rendered.control = {ev.setArg}

\* C19: when the holder contains a Date d and a DateBox receives a valid
\* text YYYY-MM-DD, holder.set is called once with a Date that has the
\* hours, minutes, seconds and milliseconds of d, on the local clock and on
\* the UTC clock alike.
C19_DateBoxKeepsTimeOfDay ==
  [][(parseKind = "date" /\ ev'.kind = "change"
        /\ store["value"].k = "date" /\ ev'.text \in ValidDateTexts) =>
       LET d == store["value"]
           w == ev'.setArg
       IN /\ ev'.setCalls = 1
          /\ store'["value"] = w
          /\ w.k = "date"
          /\ w.ms = d.ms
          /\ w.min % 1440 = d.min % 1440
          /\ (w.min - env.tzOffset) % 1440 = (d.min - env.tzOffset) % 1440]_vars

\* a date typed over the leap-day Date: the calendar date changed, the
\* seconds and milliseconds are still there
C19_Witness ==
  /\ parseKind = "date" /\ ev.kind = "change"
  /\ ev.text = <<"2", "0", "2", "4", "-", "0", "3", "-", "1", "5">>
  /\ store["value"].k = "date"
  /\ store["value"].ms = 15250
  /\ store["value"].min % 1440 = 23 * 60 + 30
  /\ store["value"] \notin HeldDates

\* C20: when a TimeBox receives a valid text hh:mm, holder.set is called
\* once with a Date whose time in the zone selected by utc is hh:mm with
\* zero seconds and milliseconds, and whose calendar date in that zone is
\* that of the holder's previous Date, or, the holder being undefined, that
\* of the day prop, or, without a day prop, that of the clock.
C20_TimeBoxKeepsDate ==
  [][(parseKind = "time" /\ ev'.kind = "change") =>
       \A vt \in ValidTimes : ev'.text = vt.text =>
         LET old == store["value"]
             base == IF old.k # "undefined" THEN old
                     ELSE IF env.day.k # "undefined" THEN env.day ELSE env.now
             off == IF env.utc THEN 0 ELSE env.tzOffset
             w == ev'.setArg
         IN /\ ev'.setCalls = 1
            /\ store'["value"] = w
            /\ w.k = "date"
            /\ (w.min - off) % 1440 = vt.h * 60 + vt.m
            /\ w.ms = 0
            /\ (w.min - off) \div 1440 = (base.min - off) \div 1440]_vars

\* 09:30 typed into a local-time TimeBox in UTC+9 with neither a held Date
\* nor a day prop: the Date is 09:30 local on the clock's local day
C20_Witness ==
  /\ parseKind = "time" /\ ev.kind = "change"
  /\ ev.text = <<"0", "9", ":", "3", "0">>
  /\ ~env.utc /\ env.tzOffset = -540 /\ env.day = NoDate
  /\ store["value"] = DateUTC(2024, 3, 11, 0, 30, 0)

\* the text of the last change event is a valid text of the field
ValidFieldText ==
  IF parseKind = "date" THEN ev.text \in ValidDateTexts
  ELSE ev.text \in {t.text : t \in ValidTimes}

\* C21 as claimed: after valid text was entered in a DateBox (resp. a
\* TimeBox), the holder's calendar date (resp. time) in the zone selected by
\* utc, which is also what the field's stringify shows, is the entered text.
C21_UtcHonoured ==
  (parseKind \in {"date", "time"} /\ ev.kind = "change" /\ ValidFieldText) =>
     /\ store["value"].k = "date"
     /\ asStr(store["value"]) = ev.text

\* C22 as claimed: for every Date v the holder holds, parse(stringify(v))
\* with v as the old value is v, for the DateBox pair and the TimeBox pair.
C22_RoundTrip ==
  (parseKind \in {"date", "time"} /\ store["value"].k = "date") =>
     ParseProp(parseKind, asStr(store["value"]), store["value"]).val
       = store["value"]

\* C27 as claimed: a change event of a DateBox or TimeBox on a holder that
\* holds a Date leaves a Date in it; a DateBox event keeps its time-of-day
\* and a TimeBox event keeps its calendar date (in the zone selected by utc).
C27_AlwaysADate ==
  [][(parseKind \in {"date", "time"} /\ ev'.kind = "change"
        /\ store["value"].k = "date") =>
       LET d == store["value"]
           w == store'["value"]
           off == IF env.utc THEN 0 ELSE env.tzOffset
       IN /\ w.k = "date"
          /\ parseKind = "date" => (w.min % 1440 = d.min % 1440 /\ w.ms = d.ms)
          /\ parseKind = "time" =>
               (w.min - off) \div 1440 = (d.min - off) \div 1440]_vars

\* C29: when the interceptor throws, set throws to its caller and nothing is
\* undone or added: a delayed-write holder has made no write and no
\* setState request and get is still the old value; an eager-write value or
\* property holder already holds the proposed value; an eager-write state
\* holder has requested it with setState (applied already outside a batch,
\* still queued inside one).
C29_ThrowLeavesStoreAsIs ==
  (last.op = "set" /\ last.threw /\ ~last.applied /\ flavor \in UserFlavors) =>
     /\ last.called
     /\ delayedWrite =>
          /\ last.writes = 0 /\ last.requests = 0
          /\ Get(last.attr) = last.before
     /\ (~delayedWrite /\ flavor # "state") =>
          /\ last.writes = 1 /\ last.requests = 0
          /\ Get(last.attr) = last.newValue
     /\ (~delayedWrite /\ flavor = "state") =>
          /\ last.writes = 0 /\ last.requests = 1
          /\ IF last.sync THEN Get(last.attr) = last.newValue
             ELSE pending[last.attr] = last.newValue

C29_Witness ==
  /\ last.op = "set" /\ last.threw /\ ~last.applied
  /\ flavor = "state" /\ ~delayedWrite /\ ~last.sync
  /\ last.newValue # last.before
  /\ Get(last.attr) = last.before
  /\ pending[last.attr] = last.newValue

\* C24: holdAllProps(model) has exactly one holder per key of model and
\* holdProps(model, keys) exactly one per listed key, holder k having
\* attr = k; every set goes through one of these holders, its handler is
\* called with that holder's attr, and it changes no property of model other
\* than that one.
C24_BulkHoldersAreDisjoint ==
  [][flavor = "prop" =>
       /\ DOMAIN holdAllProps(store) = DOMAIN store
       /\ \A k \in DOMAIN store : holdAllProps(store)[k].attr = k
       /\ \A names \in {<<"foo">>, <<"bar", "foo">>, <<"foo", "foo">>, << >>} :
            /\ DOMAIN holdProps(store, names) = {names[i] : i \in DOMAIN names}
            /\ \A k \in DOMAIN holdProps(store, names) :
                 holdProps(store, names)[k].attr = k
       /\ last'.attr \in DOMAIN holdAllProps(store)
       /\ last'.called => last'.handlerAttr = last'.attr
       /\ DOMAIN store' = DOMAIN store
       /\ \A k \in DOMAIN store \ {last'.attr} : store'[k] = store[k]]_vars

C24_Witness ==
  /\ flavor = "prop" /\ last.op = "set" /\ last.called
  /\ last.attr = "foo" /\ last.handlerAttr = "foo"
  /\ last.before = "a" /\ store["foo"] = "b" /\ store["bar"] = "a"

\* C28 as claimed: whenever the field has no focus and no parse error is
\* pending, its transient text is unset and it displays
\* stringify(holder.get).
C28_IdleFieldShowsHolder ==
  (~hasFocus /\ ~Truthy(parseError)) =>
     /\ tempText = NoText
     /\ Displayed = asStr(Get("value"))

\* C30 as claimed: when holder.set throws during a change event, the field
\* keeps showing the typed text and records the error, as for a parse
\* error, with a parse function and without one.
C30_RejectedTextIsKept ==
  (ev.kind = "change" /\ ev.setThrew) =>
     /\ parseError = Rejected
     /\ Displayed = ev.text

\* C23 as claimed: a field or wrapper bound to a holder without set is
\* disabled, no event on it writes or throws, and what it displays is
\* always the holder's get.
C23_ReadOnlyShowsGet ==
  flavor = "get" =>
     /\ isDisabled(FALSE, flavor)
     /\ ev.setCalls = 0 /\ ~ev.escaped
     /\ input = NoInput => Displayed = asStr(Get("value"))
     /\ input # NoInput =>
          rendered.control = renderInput(input, Get("value")).control

\* C23: a field or wrapper bound to a holder without set is rendered
\* disabled; no event on it calls set, changes the held value or lets an
\* exception escape; a non-text wrapper and a text field without parse
\* always display the holder's get; a text field with parse displays the
\* holder's get unless it holds a transient text, which is the text of a
\* change event that failed to parse or arrived while the field had focus.
C23_ReadOnly ==
  [][flavor = "get" =>
       /\ isDisabled(FALSE, flavor)
       /\ store' = store
       /\ ev'.setCalls = 0 /\ ~ev'.setThrew /\ ~ev'.escaped
       /\ input # NoInput =>
            /\ rendered'.disabled
            /\ rendered'.control = renderInput(input, store["value"]).control
       /\ input = NoInput =>
            /\ DisplayedText(tempText', store'["value"]) =
                 IF tempText' # NoText THEN tempText' ELSE asStr(store["value"])
            /\ parseKind = "none" => tempText' = NoText
            /\ tempText' \notin {NoText, tempText} =>
                 /\ ev'.kind = "change" /\ tempText' = ev'.text
                 /\ hasFocus \/ Truthy(parseError')]_vars

\* a change event whose text parsed reached a read-only text field that had
\* focus: nothing was written and the field shows the typed text
C23_Witness ==
  /\ flavor = "get"
  /\ input = NoInput
  /\ ev.kind = "change" /\ ev.outcome = "value"
  /\ tempText # NoText
  /\ Displayed # asStr(Get("value"))

\* C25: when the default composer is given a label, the label span comes
\* after the control exactly when labelAfter is true or, with labelAfter
\* undefined, the control is a checkbox or a radio; otherwise it comes
\* before the control; a non-empty label is the text of the label span.
C25_LabelPlacement ==
  (layout.markup # << >> /\ layout.p.label # Undefined) =>
     LET doc == layout.markup
         after == IF layout.p.labelAfter # Undefined
                  THEN layout.p.labelAfter = "true"
                  ELSE layout.type \in {"checkbox", "radio"}
     IN /\ Has(doc, "<LabelSpan>") /\ Has(doc, "<input>")
        /\ Before(doc, "<input>", "<LabelSpan>") <=> after
        /\ Before(doc, "<LabelSpan>", "<input>") <=> ~after
        /\ Truthy(layout.p.label) =>
             doc[IndexOf(doc, "<LabelSpan>") + 1] = layout.p.label

\* a checkbox with a label and no labelAfter prop was composed, label last
C25_Witness ==
  /\ layout.markup # << >>
  /\ layout.type = "checkbox"
  /\ layout.p.label = "Name:" /\ layout.p.labelAfter = Undefined
  /\ Before(layout.markup, "<input>", "Name:")

\* C26 as claimed: an error span is in the markup exactly when noErrorSpan
\* is not set, options.errorSpan has a class or a style, and the error is
\* non-empty or emitEmptyForText is on for a text-like control; it stands
\* before the control if errorFirst is set and after it otherwise.
C26_ErrorSpanEmitted ==
  layout.markup # << >> =>
     LET doc == layout.markup
         textLike == layout.type \notin
                       {"checkbox", "radio", "range", "button", "color"}
         due == /\ ~layout.p.noErrorSpan
                /\ Truthy(layout.oes.class) \/ Truthy(layout.oes.style)
                /\ Truthy(layout.error)
                     \/ (layout.oes.emitEmptyForText /\ textLike)
     IN /\ Has(doc, "<ErrorSpan>") <=> due
        /\ Has(doc, "<ErrorSpan>") =>
             (Before(doc, "<ErrorSpan>", "<input>") <=> layout.p.errorFirst)

\* C26: the error is in the markup exactly when noErrorSpan is not set,
\* options.errorSpan has a class or a style, and the error is non-empty or
\* emitEmptyForText is on for a text-like control.  A string (or missing)
\* error is emitted inside an error span, an error that is an element is
\* emitted as it is, without an error span.  What is emitted stands before
\* the control if errorFirst is set and after it otherwise.
C26_ErrorRegion ==
  layout.markup # << >> =>
     LET doc == layout.markup
         textLike == layout.type \notin
                       {"checkbox", "radio", "range", "button", "color"}
         due == /\ ~layout.p.noErrorSpan
                /\ Truthy(layout.oes.class) \/ Truthy(layout.oes.style)
                /\ Truthy(layout.error)
                     \/ (layout.oes.emitEmptyForText /\ textLike)
         region == IF layout.error = ErrorElement THEN ErrorElement
                   ELSE "<ErrorSpan>"
     IN /\ Has(doc, region) <=> due
        /\ layout.error = ErrorElement => ~Has(doc, "<ErrorSpan>")
        /\ layout.error # ErrorElement => ~Has(doc, ErrorElement)
        /\ (due /\ layout.error = "Required") =>
             doc[IndexOf(doc, "<ErrorSpan>") + 1] = "Required"
        /\ due => (Before(doc, region, "<input>") <=> layout.p.errorFirst)
        /\ due => (Before(doc, "<input>", region) <=> ~layout.p.errorFirst)

\* an error string was composed with errorFirst, and the span stands first
C26_Witness ==
  /\ layout.markup # << >>
  /\ layout.error = "Required" /\ layout.p.errorFirst
  /\ ~layout.p.noErrorSpan
  /\ Has(layout.markup, "<ErrorSpan>")
  /\ Before(layout.markup, "<ErrorSpan>", "<input>")

====
